---- MODULE Spec2Model ----
(***************************************************************************)
(* A model of the Sudoku instantiation of quickbacktrack                   *)
(* (examples/sudoku.rs): the Sodoku puzzle (slots, possible, solve_simple, *)
(* set, remove, is_solved, find_empty, find_min_empty, find_freq_empty)    *)
(* and the depth-first backtracking search that drives it.                 *)
(*                                                                         *)
(* A grid is slots[y][x] with x, y in 0..8 and values in 0..9 (0 = empty). *)
(* A position is <<x, y>> (column, row), as [usize; 2] in the source.      *)
(* Option::None is the empty tuple <<>>.                                   *)
(***************************************************************************)
EXTENDS Integers, Sequences, FiniteSets, TLC

\* ---------------------------------------------------------------- constants

\* Side of the grid: slots: [[u8; 9]; 9].
N == 9

\* Side of a block: block_x = 3 * (pos[0] / 3), block_x..block_x + 3.
B == 3

Idx == 0..(N - 1)
Vals == 1..N
Cells == 0..(N * N - 1)

\* The k-th cell of the row-major scan "for y in 0..9 { for x in 0..9".
CellPos(k) == <<k % N, k \div N>>

None == <<>>

\* ------------------------------------------------------------------ bounds

\* How many cells of HoleCells an input grid may have empty.
MaxHoles == 8

\* How many cells of HoleCells may be empty in an input grid that also has
\* one cell overwritten.
MaxClashHoles == 3

\* How many cells of ClashCells may be overwritten (one at a time).
MaxClash == 2

\* ------------------------------------------------------- the Sodoku puzzle

\* A bug: the two indices of set are exchanged.
set_swapped(g, pos, val) == [g EXCEPT ![pos[1]][pos[2]] = val]

\* fn set(&mut self, pos, val): self.slots[pos[1]][pos[0]] = val.
set(g, pos, val) == [g EXCEPT ![pos[2]][pos[1]] = val]

\* The value at a position.
At(g, pos) == g[pos[2]][pos[1]]

\* A bug: the row test of the first inner loop is lost.
LineHit_column_only(g, pos, v) ==
  \E i \in Idx : g[i][pos[1]] = v

\* possible, the first inner loop: v is met in pos's row or pos's column.
LineHit(g, pos, v) ==
  \E i \in Idx : g[pos[2]][i] = v \/ g[i][pos[1]] = v

\* possible, the second inner loop: v is met in the 3x3 window at
\* (block_x, block_y).
BlockHit(g, pos, v) ==
  LET block_x == B * (pos[1] \div B)
      block_y == B * (pos[2] \div B)
  IN \E y \in block_y..(block_y + B - 1) :
       \E x \in block_x..(block_x + B - 1) : g[y][x] = v

\* A bug of the kind a transposed index makes: the block origin is taken
\* from (row, column) instead of (column, row).
possible_swapped(g, pos) ==
  IF At(g, pos) # 0
    THEN <<At(g, pos)>>
    ELSE SelectSeq([v \in Vals |-> v],
                   LAMBDA v : ~LineHit(g, pos, v)
                              /\ ~BlockHit(g, <<pos[2], pos[1]>>, v))

\* A bug: the candidates are collected from 9 down to 1.
possible_descending(g, pos) ==
  IF At(g, pos) # 0
    THEN <<At(g, pos)>>
    ELSE SelectSeq([i \in Vals |-> N + 1 - i],
                   LAMBDA v : ~LineHit(g, pos, v) /\ ~BlockHit(g, pos, v))

\* fn possible(&self, pos) -> Vec<u8>.
possible(g, pos) ==
  IF At(g, pos) # 0
    THEN <<At(g, pos)>>
    ELSE SelectSeq([v \in Vals |-> v],
                   LAMBDA v : ~LineHit(g, pos, v) /\ ~BlockHit(g, pos, v))

\* fn is_solved(&self) -> bool.
is_solved(g) == \A y \in Idx : \A x \in Idx : g[y][x] # 0

\* A bug: the test of remove is inverted.
remove_inverted(self, other) ==
  [y \in Idx |-> [x \in Idx |->
     IF other[y][x] = 0 THEN 0 ELSE self[y][x]]]

\* fn remove(&mut self, other): the value of self afterwards.
remove(self, other) ==
  [y \in Idx |-> [x \in Idx |->
     IF other[y][x] # 0 THEN 0 ELSE self[y][x]]]

\* "for i in 0..9 { ... }" from i on, acc being what the loop carries from
\* one iteration to the next and Body(acc, i) what iteration i makes of it.
RECURSIVE Loop(_, _, _)
Loop(Body(_, _), i, acc) ==
  IF i = N
    THEN acc
    ELSE CHOOSE r \in {Loop(Body, j, a) : j \in {i + 1}, a \in {Body(acc, i)}} :
           TRUE

\* "for p in &seq { ... }" from the j-th element on, in the same way.
RECURSIVE Each(_, _, _, _)
Each(Body(_, _), seq, j, acc) ==
  IF j > Len(seq)
    THEN acc
    ELSE CHOOSE r \in {Each(Body, seq, k, a) :
                         k \in {j + 1}, a \in {Body(acc, seq[j])}} : TRUE

\* A bug: the test is possible.len() >= 1, so that the first of several
\* candidates is assigned.
ScanCell_first_candidate(s, x, y) ==
  IF s.slots[y][x] # 0
    THEN s
    ELSE CHOOSE r \in {IF Len(p) >= 1
                         THEN [slots |-> set(s.slots, <<x, y>>, p[1]),
                               found_any |-> TRUE]
                         ELSE s :
                       p \in {possible(s.slots, <<x, y>>)}} : TRUE

\* solve_simple, the body of "for x in 0..9" at (x, y): s holds the grid, as
\* updated so far, and found_any.
ScanCell(s, x, y) ==
  IF s.slots[y][x] # 0
    THEN s
    ELSE CHOOSE r \in {IF Len(p) = 1
                         THEN [slots |-> set(s.slots, <<x, y>>, p[1]),
                               found_any |-> TRUE]
                         ELSE s :
                       p \in {possible(s.slots, <<x, y>>)}} : TRUE

\* solve_simple, the body of "for y in 0..9" at row y.
ScanRow(s, y) == Loop(LAMBDA a, x : ScanCell(a, x, y), 0, s)

\* A bug: found_any = true is written outside the test of possible.len().
Scan_found_always(g) ==
  [Loop(ScanRow, 0, [slots |-> g, found_any |-> FALSE])
     EXCEPT !.found_any = TRUE]

\* solve_simple, one iteration of "loop": the grid and found_any at the
\* test "if !found_any { break; }".
Scan(g) == Loop(ScanRow, 0, [slots |-> g, found_any |-> FALSE])

\* A bug: the loop of solve_simple is left after its first iteration.
solve_simple_once(g) == Scan(g).slots

\* fn solve_simple(&mut self): the value of self afterwards.
RECURSIVE solve_simple(_)
solve_simple(g) ==
  CHOOSE h \in {IF r.found_any THEN solve_simple(r.slots) ELSE r.slots :
                  r \in {Scan(g)}} : TRUE

\* The first cell of the row-major scan among the cells of S, None when S
\* is empty: "for y in 0..9 { for x in 0..9 { if ... { return Some([x, y])".
FirstCell(S) ==
  IF S = {} THEN None ELSE CellPos(CHOOSE k \in S : \A j \in S : k <= j)

\* pub fn find_empty(&self) -> Option<[usize; 2]>.
find_empty(g) == FirstCell({k \in Cells : At(g, CellPos(k)) = 0})

\* A bug: the test of find_min_empty is >= instead of >, so that among
\* cells with the smallest count the last one is kept.
MinCell_last_on_ties(g, m, x, y) ==
  IF g[y][x] = 0
    THEN CHOOSE r \in {IF m.min = -1 \/ m.min >= Len(p)
                         THEN [min |-> Len(p), min_pos |-> <<x, y>>]
                         ELSE m :
                       p \in {possible(g, <<x, y>>)}} : TRUE
    ELSE m

\* find_min_empty, the body of "for x in 0..9" at (x, y): m holds min and
\* min_pos, min being -1 for None.
MinCell(g, m, x, y) ==
  IF g[y][x] = 0
    THEN CHOOSE r \in {IF m.min = -1 \/ m.min > Len(p)
                         THEN [min |-> Len(p), min_pos |-> <<x, y>>]
                         ELSE m :
                       p \in {possible(g, <<x, y>>)}} : TRUE
    ELSE m

\* pub fn find_min_empty(&self) -> Option<[usize; 2]>.
find_min_empty(g) ==
  Loop(LAMBDA m, y : Loop(LAMBDA n, x : MinCell(g, n, x, y), 0, m),
       0, [min |-> -1, min_pos |-> None]).min_pos

\* find_freq_empty, the body of the first "for x in 0..9" at (x, y), with
\* its "for p in &possible": freq[p - 1] += 1 and
\* mask[y][x] |= 1 << (p - 1).  A mask is kept as the set of its bits.
FreqCell(g, acc, x, y) ==
  IF g[y][x] = 0
    THEN CHOOSE r \in
           {Each(LAMBDA a, p :
                   [freq |-> [a.freq EXCEPT ![p - 1] = @ + 1],
                    mask |-> [a.mask EXCEPT ![y][x] = @ \cup {p - 1}]],
                 cands, 1, acc) :
              cands \in {possible(g, <<x, y>>)}} : TRUE
    ELSE acc

\* find_freq_empty, "Find the frequency of each numbers": freq and mask
\* after the first pair of for loops.
FreqCount(g) ==
  Loop(LAMBDA acc, y : Loop(LAMBDA a, x : FreqCell(g, a, x, y), 0, acc),
       0, [freq |-> [i \in Idx |-> 0],
           mask |-> [y \in Idx |-> [x \in Idx |-> {}]]])

\* A bug: the test of the frequencies is <= instead of <, so that among
\* values with the smallest frequency the last one is kept.
MinFreq_last_on_ties(freq) ==
  Loop(LAMBDA m, i :
         IF freq[i] > 0 /\ (m = -1 \/ freq[i] <= freq[m]) THEN i ELSE m,
       0, -1)

\* find_freq_empty, "Find the number with least frequency, but bigger than
\* 0": min_freq after "for i in 0..9", -1 for None.
MinFreq(freq) ==
  Loop(LAMBDA m, i :
         IF freq[i] > 0 /\ (m = -1 \/ freq[i] < freq[m]) THEN i ELSE m,
       0, -1)

\* A bug: None is returned when no value has a frequency above 0, instead
\* of what find_empty returns.
FreqPick_no_fallback(g, acc, min_freq) ==
  IF min_freq = -1
    THEN None
    ELSE LET hit == {k \in Cells :
                       /\ At(g, CellPos(k)) = 0
                       /\ min_freq \in acc.mask[k \div N][k % N]}
         IN IF hit = {} THEN find_empty(g) ELSE FirstCell(hit)

\* find_freq_empty from min_freq on: find_empty when it is None, otherwise
\* the first empty cell whose mask has the bit, find_empty when none has.
FreqPick(g, acc, min_freq) ==
  IF min_freq = -1
    THEN find_empty(g)
    ELSE LET hit == {k \in Cells :
                       /\ At(g, CellPos(k)) = 0
                       /\ min_freq \in acc.mask[k \div N][k % N]}
         IN IF hit = {} THEN find_empty(g) ELSE FirstCell(hit)

\* find_freq_empty from the second part on, freq and mask being computed.
FreqLeast(g, acc) ==
  CHOOSE pos \in {FreqPick(g, acc, min_freq) :
                    min_freq \in {MinFreq(acc.freq)}} : TRUE

\* pub fn find_freq_empty(&self) -> Option<[usize; 2]>.
find_freq_empty(g) ==
  CHOOSE pos \in {FreqLeast(g, acc) : acc \in {FreqCount(g)}} : TRUE

\* --------------------------------------------------------------- inputs

\* A valid solved Sudoku: the grid the inputs are cut from.
Base == [y \in Idx |-> [x \in Idx |-> ((B * (y % B) + (y \div B) + x) % N) + 1]]

\* The cells an input may have empty, in the order the bound admits them.
HoleCells ==
  << <<0, 0>>, <<6, 0>>, <<0, 2>>, <<0, 1>>, <<3, 1>>, <<6, 1>>, <<3, 2>>,
     <<6, 2>>, <<3, 0>>, <<1, 0>> >>

\* The cells an input may have overwritten, in the order the bound admits them.
ClashCells == << <<0, 0>>, <<1, 0>>, <<2, 0>> >>

Capped(n, seq) == IF n < Len(seq) THEN n ELSE Len(seq)

\* Base with the cells of H emptied.
Punch(H) ==
  [y \in Idx |-> [x \in Idx |-> IF <<x, y>> \in H THEN 0 ELSE Base[y][x]]]

\* Base with any of the first n cells of HoleCells emptied.
HoleGrids(n) ==
  {Punch(H) : H \in SUBSET {HoleCells[i] : i \in 1..Capped(n, HoleCells)}}

\* A grid of HoleGrids(MaxClashHoles) with one cell of ClashCells given any
\* value: grids with a value repeated in a row, column or block, and grids
\* without a repeated value that have no completion.
ClashGrids ==
  {set(g, ClashCells[i], v) :
     g \in HoleGrids(MaxClashHoles),
     i \in 1..Capped(MaxClash, ClashCells),
     v \in Vals}

Inputs == HoleGrids(MaxHoles) \cup ClashGrids

\* -------------------------------------------------------------- the search

VARIABLES
  original,   \* the puzzle as it was given to the solver
  slots,      \* the grid the search mutates in place (Sodoku::slots)
  settings,   \* SolveSettings: solve_simple, difference
  strategy,   \* the selection strategy of the running solve
  stack,      \* the search frames of the active call chain, root first
  pc,         \* where the running call stands
  ret,        \* what the call that returned last reported
  outcome,    \* per strategy, what solve returned
  out         \* the result of the last function applied on its own

vars == <<original, slots, settings, strategy, stack, pc, ret, outcome, out>>

\* The three strategies, in the order the runs are made.
Strategies == <<"find_empty", "find_min_empty", "find_freq_empty">>

StrategyNames == {Strategies[i] : i \in 1..Len(Strategies)}

\* The closure given to solve: |s| s.find_min_empty() and the two others.
Select(f, g) ==
  CASE f = "find_empty" -> find_empty(g)
    [] f = "find_min_empty" -> find_min_empty(g)
    [] f = "find_freq_empty" -> find_freq_empty(g)

Pending == [status |-> "pending", grid |-> <<>>]

\* Where a call starts: the propagation pass when solve_simple is set, the
\* selection otherwise.
Entry == IF settings.solve_simple THEN "propagate" ELSE "select"

\* let x = ...; SolveSettings::new()...; BackTrackSolver::new(x, settings).
Init ==
  /\ original \in Inputs
  /\ slots = original
  /\ settings \in [solve_simple : BOOLEAN, difference : BOOLEAN]
  /\ strategy = Strategies[1]
  /\ stack = <<>>
  /\ pc = IF settings.solve_simple THEN "propagate" ELSE "select"
  /\ ret = "none"
  /\ outcome = [f \in StrategyNames |-> Pending]
  /\ out = <<>>

\* Step 1 of the search, one iteration of the loop of solve_simple: the
\* pass ends with the iteration that assigns nothing.
Propagate ==
  /\ pc = "propagate"
  /\ \E r \in {Scan(slots)} :
        /\ slots' = r.slots
        /\ pc' = IF r.found_any THEN "propagate" ELSE "select"
  /\ UNCHANGED <<original, settings, strategy, stack, ret, outcome, out>>

Top == stack[Len(stack)]

\* The grid as it was when the running call was entered: the input for the
\* root call, the grid its parent made by a tentative assignment otherwise.
Entered == IF stack = <<>> THEN original ELSE Top.child

\* Steps 2 and 3: no position left is SUCCEEDED; otherwise a frame for the
\* position with its candidates, none of them tried yet.  The frame keeps
\* the grid of the call's entry, the grid the candidates were computed on
\* and the grid the last tentative assignment made.
Choose ==
  /\ pc = "select"
  /\ \E pos \in {Select(strategy, slots)} :
        IF pos = None
          THEN /\ ret' = "SUCCEEDED"
               /\ pc' = "returned"
               /\ stack' = stack
          ELSE /\ stack' = Append(stack, [pos |-> pos,
                                          cands |-> possible(slots, pos),
                                          idx |-> 0,
                                          entry |-> Entered,
                                          grid |-> slots,
                                          child |-> slots])
               /\ pc' = "iterate"
               /\ ret' = ret
  /\ UNCHANGED <<original, slots, settings, strategy, outcome, out>>

\* Step 4: the next candidate, in ascending order, is assigned and the
\* search recurses.
Try ==
  /\ pc = "iterate"
  /\ Top.idx < Len(Top.cands)
  /\ slots' = set(slots, Top.pos, Top.cands[Top.idx + 1])
  /\ stack' = [stack EXCEPT ![Len(stack)].idx = Top.idx + 1,
                            ![Len(stack)].child =
                               set(slots, Top.pos, Top.cands[Top.idx + 1])]
  /\ pc' = Entry
  /\ ret' = "none"
  /\ UNCHANGED <<original, settings, strategy, outcome, out>>

\* Step 5: every candidate of the frame was tried: the call reports FAILED.
Exhausted ==
  /\ pc = "iterate"
  /\ Top.idx = Len(Top.cands)
  /\ stack' = SubSeq(stack, 1, Len(stack) - 1)
  /\ ret' = "FAILED"
  /\ pc' = "returned"
  /\ UNCHANGED <<original, slots, settings, strategy, outcome, out>>

\* Step 4, the recursive call reported FAILED: the tentative assignment is
\* undone (the empty sentinel restored at that position) and the loop goes on.
Undo ==
  /\ pc = "returned"
  /\ ret = "FAILED"
  /\ stack # <<>>
  /\ slots' = set(slots, Top.pos, 0)
  /\ pc' = "iterate"
  /\ UNCHANGED <<original, settings, strategy, stack, ret, outcome, out>>

\* A bug: after a recursive call reported SUCCEEDED the frame goes on with
\* its next candidate.
Succeed_tries_on ==
  /\ pc = "returned"
  /\ ret = "SUCCEEDED"
  /\ stack # <<>>
  /\ pc' = "iterate"
  /\ UNCHANGED <<original, slots, settings, strategy, stack, ret, outcome, out>>

\* Step 4, the recursive call reported SUCCEEDED: the frame reports
\* SUCCEEDED at once.
Succeed ==
  /\ pc = "returned"
  /\ ret = "SUCCEEDED"
  /\ stack # <<>>
  /\ stack' = SubSeq(stack, 1, Len(stack) - 1)
  /\ UNCHANGED <<original, slots, settings, strategy, pc, ret, outcome, out>>

\* The root call has reported: the solved grid, or the difference when
\* report_difference is set, or the no solution outcome.
Finish ==
  /\ pc = "returned"
  /\ stack = <<>>
  /\ outcome' = [outcome EXCEPT ![strategy] =
       IF ret = "SUCCEEDED"
         THEN [status |-> "Solved",
               grid |-> IF settings.difference
                          THEN remove(slots, original) ELSE slots]
         ELSE [status |-> "NoSolution", grid |-> <<>>]]
  /\ pc' = "done"
  /\ UNCHANGED <<original, slots, settings, strategy, stack, ret, out>>

\* The same puzzle is given to a new solver with the next strategy ("Try
\* find_empty and find_freq_empty for comparison").
NextRun ==
  /\ pc = "done"
  /\ \E i \in 1..(Len(Strategies) - 1) :
       /\ strategy = Strategies[i]
       /\ strategy' = Strategies[i + 1]
  /\ slots' = original
  /\ stack' = <<>>
  /\ pc' = Entry
  /\ ret' = "none"
  /\ UNCHANGED <<original, settings, outcome, out>>

Next ==
  \/ Propagate
  \/ Choose
  \/ Try
  \/ Exhausted
  \/ Undo
  \/ Succeed
  \/ Finish
  \/ NextRun

Spec == Init /\ [][Next]_vars

\* The search under the scheduling of a single thread that is never
\* interrupted: a step that can be taken is taken.
FairSpec == Spec /\ WF_vars(Next)

\* ------------------------------------------- the functions on their own

Idle == [solve_simple |-> FALSE, difference |-> FALSE]

\* A grid for self, no function applied yet.
InitFn ==
  /\ slots \in Inputs
  /\ original = slots
  /\ settings = Idle
  /\ strategy = Strategies[1]
  /\ stack = <<>>
  /\ pc = "idle"
  /\ ret = "none"
  /\ outcome = [f \in StrategyNames |-> Pending]
  /\ out = <<>>

FnFrame == <<original, slots, settings, strategy, stack, ret, outcome>>

\* self.possible(pos) at every position, cell k being (k % 9, k / 9).
FnPossible ==
  /\ pc = "idle"
  /\ out' = [k \in Cells |-> possible(slots, CellPos(k))]
  /\ pc' = "possible"
  /\ UNCHANGED FnFrame

\* self.remove(&other), self being slots and other, any grid of
\* HoleGrids(MaxClashHoles), being kept in original: out is self afterwards.
FnRemove ==
  /\ pc = "idle"
  /\ \E other \in HoleGrids(MaxClashHoles) :
       /\ original' = other
       /\ out' = remove(slots, other)
  /\ pc' = "remove"
  /\ UNCHANGED <<slots, settings, strategy, stack, ret, outcome>>

\* self.solve_simple(): out holds self afterwards.
FnSolveSimple ==
  /\ pc = "idle"
  /\ out' = <<solve_simple(slots)>>
  /\ pc' = "solve_simple"
  /\ UNCHANGED FnFrame

\* self.solve_simple() once more, on the grid the first call left.
FnSolveSimpleAgain ==
  /\ pc = "solve_simple"
  /\ out' = Append(out, solve_simple(out[1]))
  /\ pc' = "solve_simple_again"
  /\ UNCHANGED FnFrame

\* self.find_empty(), self.find_min_empty() and self.find_freq_empty() on
\* the same grid.
FnSelect ==
  /\ pc = "idle"
  /\ out' = [f \in StrategyNames |-> Select(f, slots)]
  /\ pc' = "strategies"
  /\ UNCHANGED FnFrame

NextFn ==
  \/ FnSelect
  \/ FnPossible
  \/ FnRemove
  \/ FnSolveSimple
  \/ FnSolveSimpleAgain

SpecFn == InitFn /\ [][NextFn]_vars

\* ------------------------------------------------ what the claims speak of

Positions == Idx \X Idx

RowOf(pos) == {<<x, pos[2]>> : x \in Idx}

ColOf(pos) == {<<pos[1], y>> : y \in Idx}

\* The 3x3 block with origin (3 * (col / 3), 3 * (row / 3)).
BlockOf(pos) ==
  {<<x, y>> : x \in (3 * (pos[1] \div 3))..(3 * (pos[1] \div 3) + 2),
              y \in (3 * (pos[2] \div 3))..(3 * (pos[2] \div 3) + 2)}

\* The other cells of pos's row, column and block.
Peers(pos) == (RowOf(pos) \cup ColOf(pos) \cup BlockOf(pos)) \ {pos}

\* The rows, the columns and the blocks.
Units ==
  {RowOf(<<0, y>>) : y \in Idx} \cup {ColOf(<<x, 0>>) : x \in Idx}
    \cup {BlockOf(<<3 * i, 3 * j>>) : i \in 0..2, j \in 0..2}

\* Every row, column and block holds each of 1..9 exactly once.
Valid(g) ==
  \A u \in Units : \A v \in 1..9 :
    Cardinality({p \in u : At(g, p) = v}) = 1

\* No nonzero value is repeated in a row, column or block.
NoRepeat(g) ==
  \A p \in Positions :
    At(g, p) # 0 => \A q \in Peers(p) : At(g, q) # At(g, p)

EmptyAt(g) == {p \in Positions : At(g, p) = 0}

\* The valid grids that keep every nonzero cell of g.
RECURSIVE Fillings(_)
Fillings(g) ==
  IF EmptyAt(g) = {}
    THEN {g}
    ELSE LET p == CHOOSE q \in EmptyAt(g) : TRUE
         IN UNION {Fillings(set(g, p, v)) :
                     v \in {w \in 1..9 : \A q \in Peers(p) : At(g, q) # w}}

Completions(g) == IF NoRepeat(g) THEN Fillings(g) ELSE {}

\* d laid over g: d's value where it is nonzero, g's value elsewhere.
Overlay(d, g) ==
  [y \in Idx |-> [x \in Idx |-> IF d[y][x] # 0 THEN d[y][x] ELSE g[y][x]]]

Range(seq) == {seq[i] : i \in 1..Len(seq)}

Ascending(seq) == \A i \in 1..(Len(seq) - 1) : seq[i] < seq[i + 1]

Solved(f) == outcome[f].status = "Solved"

Reported(f) == outcome[f].status # "pending"

\* Every run ended.
AllDone == pc = "done" /\ strategy = Strategies[Len(Strategies)]

\* ------------------------------------------------------------ the claims

\* C1 (as claimed).  Every grid solve returns as a success, report_difference
\* off, holds each of 1..9 exactly once in every row, column and block,
\* whatever the input grid, the strategy and pre_pass_propagation.
C1_ReturnedGridsValid ==
  (pc = "done" /\ Solved(strategy) /\ ~settings.difference) =>
    Valid(outcome[strategy].grid)

\* C2 (as claimed).  On an input grid that has a valid completion, solve
\* reports success and never NoSolution, with each strategy and with
\* pre_pass_propagation on as well as off.
C2_CompletableInputsSolve ==
  (pc = "done" /\ Completions(original) # {}) => Solved(strategy)

\* C3 (as claimed).  On an input grid that has no valid completion, solve
\* reports NoSolution: it never returns as a success a grid with an empty
\* cell or with a row, column or block rule broken.
C3_NoCompletionNoSolution ==
  (pc = "done" /\ Completions(original) = {}) =>
    outcome[strategy].status = "NoSolution"

\* C4.  Every solve run terminates: the root call of the run of every
\* strategy reports SUCCEEDED or FAILED, and every propagation pass that
\* is started comes to its end.
C4_EveryRunTerminates ==
  /\ <>AllDone
  /\ (pc = "propagate") ~> (pc = "select")

\* C4, its case: the three runs are over, with propagation, and one of them
\* went through failed branches to NoSolution.
C4_Witness ==
  /\ AllDone
  /\ settings.solve_simple
  /\ \E f \in StrategyNames : outcome[f].status = "NoSolution"
  /\ \A f \in StrategyNames : Reported(f)

\* C5 (as claimed).  On an input grid that has a valid completion, the
\* three strategies report the same final grid, cell for cell.
C5_StrategiesAgree ==
  (AllDone /\ Completions(original) # {}) =>
    \A f, h \in StrategyNames : outcome[f] = outcome[h]

\* C6.  When solve succeeds on g, the difference it reports, laid over g
\* (the difference's value where nonzero, g's value elsewhere), is the
\* solved grid.
C6_OverlayReconstructs ==
  (pc = "done" /\ Solved(strategy) /\ settings.difference) =>
    Overlay(outcome[strategy].grid, original) = slots

\* C6, its case: a difference was reported for an input with empty cells.
C6_Witness ==
  /\ pc = "done"
  /\ Solved(strategy)
  /\ settings.difference
  /\ Cardinality(EmptyAt(original)) >= 2
  /\ outcome[strategy].grid # slots

\* C7.  remove leaves, at every position, self's value where other is
\* empty and 0 where other is nonzero.
C7_RemovePointwise ==
  pc = "remove" =>
    \A p \in Positions :
      At(out, p) = IF At(original, p) = 0 THEN At(slots, p) ELSE 0

\* C7, its case: remove was applied where all four kinds of position occur.
C7_Witness ==
  /\ pc = "remove"
  /\ \E p \in Positions : At(original, p) = 0 /\ At(slots, p) # 0
  /\ \E p \in Positions : At(original, p) = 0 /\ At(slots, p) = 0
  /\ \E p \in Positions : At(original, p) # 0 /\ At(slots, p) = 0
  /\ \E p \in Positions : At(original, p) # 0 /\ At(slots, p) # 0

\* The values met nowhere in pos's row, column and block.
Free(g, pos) ==
  {v \in 1..9 :
     \A q \in RowOf(pos) \cup ColOf(pos) \cup BlockOf(pos) : At(g, q) # v}

\* C8.  possible returns the one-element list of the cell's own value when
\* the cell is filled, and otherwise exactly the values of 1..9 met nowhere
\* in the row, the column and the block, ascending and without repetition.
C8_PossibleExact ==
  pc = "possible" =>
    \A k \in Cells :
      IF At(slots, CellPos(k)) # 0
        THEN out[k] = <<At(slots, CellPos(k))>>
        ELSE /\ Ascending(out[k])
             /\ Range(out[k]) = Free(slots, CellPos(k))

\* C8, its case: possible was applied to a grid with a filled cell, an
\* empty cell with several candidates and an empty cell with one.
C8_Witness ==
  /\ pc = "possible"
  /\ \E k \in Cells : At(slots, CellPos(k)) # 0
  /\ \E k \in Cells : At(slots, CellPos(k)) = 0 /\ Len(out[k]) >= 2
  /\ \E k \in Cells : At(slots, CellPos(k)) = 0 /\ Len(out[k]) = 1

\* C9 (as claimed).  At every position, filled or empty, possible returns
\* no value that another cell of the row, column or block holds.
C9_NeverDuplicates ==
  pc = "possible" =>
    \A k \in Cells : \A v \in Range(out[k]) :
      \A q \in Peers(CellPos(k)) : At(slots, q) # v

\* C9 (amended).  At every empty position possible returns no value that
\* another cell of the row, column or block holds; at a filled position it
\* returns the cell's own value, also when another cell of the row, column
\* or block holds it.
C9_EmptyNeverDuplicates ==
  pc = "possible" =>
    \A k \in Cells :
      IF At(slots, CellPos(k)) = 0
        THEN \A v \in Range(out[k]) :
               \A q \in Peers(CellPos(k)) : At(slots, q) # v
        ELSE out[k] = <<At(slots, CellPos(k))>>

\* C9, its case: possible was applied to a grid with a repeated value, at
\* an empty position with a candidate, at an empty position with none and
\* at a filled position of which a peer holds the same value.
C9_Witness ==
  /\ pc = "possible"
  /\ ~NoRepeat(slots)
  /\ \E k \in Cells : At(slots, CellPos(k)) = 0 /\ Len(out[k]) >= 1
  /\ \E k \in Cells : At(slots, CellPos(k)) = 0 /\ Len(out[k]) = 0
  /\ \E k \in Cells :
       /\ At(slots, CellPos(k)) # 0
       /\ \E q \in Peers(CellPos(k)) : At(slots, q) = At(slots, CellPos(k))

\* C10.  solve_simple run a second time leaves the grid the first run left.
C10_SolveSimpleIdempotent ==
  pc = "solve_simple_again" => out[2] = out[1]

\* C10, its case: the first run filled cells in more than one iteration of
\* its loop, and the second run was made.
C10_Witness ==
  /\ pc = "solve_simple_again"
  /\ Scan(slots).found_any
  /\ Scan(slots).slots # out[1]

\* Row y holds the same nonzero value in two cells.
RowClash(g, y) ==
  \E x1, x2 \in Idx : x1 # x2 /\ g[y][x1] # 0 /\ g[y][x1] = g[y][x2]

\* C11 (as claimed).  On an input grid in which two cells of a row hold the
\* same nonzero value, possible at an empty cell of that row returns a list
\* of values of 1..9, and solve ends with the outcome NoSolution.
C11_RowClashNoSolution ==
  \A y \in Idx : \A x \in Idx :
    (pc = "done" /\ RowClash(original, y) /\ original[y][x] = 0) =>
      /\ Range(possible(original, <<x, y>>)) \subseteq 1..9
      /\ outcome[strategy].status = "NoSolution"

\* C12.  Each of the three strategies returns none exactly when the grid
\* has no empty cell, and a position it returns is the position of an empty
\* cell, also on grids where an empty cell has no candidate.
C12_NoneIffNoEmptyCell ==
  pc = "strategies" =>
    \A f \in StrategyNames :
      /\ out[f] = <<>> <=> EmptyAt(slots) = {}
      /\ out[f] # <<>> => out[f] \in EmptyAt(slots)

\* C12, its case: the strategies were applied to a grid that has empty
\* cells, none of which has a candidate.
C12_Witness ==
  /\ pc = "strategies"
  /\ EmptyAt(slots) # {}
  /\ \A p \in EmptyAt(slots) : Free(slots, p) = {}
  /\ \A f \in StrategyNames : out[f] \in EmptyAt(slots)

\* The place of a position in the row-major scan.
RowMajor(pos) == 9 * pos[2] + pos[1]

\* The first position of S in the row-major scan.
FirstOf(S) == CHOOSE p \in S : \A q \in S : RowMajor(p) <= RowMajor(q)

\* C16.  On a grid with an empty cell find_min_empty returns the empty cell
\* with the fewest candidates, the first one in row-major order among the
\* cells with that number.
C16_FewestCandidatesFirst ==
  (pc = "strategies" /\ EmptyAt(slots) # {}) =>
    LET least == {p \in EmptyAt(slots) :
                    \A q \in EmptyAt(slots) :
                      Cardinality(Free(slots, p)) <= Cardinality(Free(slots, q))}
    IN out["find_min_empty"] = FirstOf(least)

\* C16, its case: several empty cells share the smallest number of
\* candidates, which is 0, and an empty cell with more candidates comes
\* before them in row-major order.
C16_Witness ==
  /\ pc = "strategies"
  /\ Cardinality({p \in EmptyAt(slots) : Free(slots, p) = {}}) >= 2
  /\ Free(slots, FirstOf(EmptyAt(slots))) # {}
  /\ Free(slots, out["find_min_empty"]) = {}

\* How many empty cells of g have v among their candidates.
Frequency(g, v) == Cardinality({p \in EmptyAt(g) : v \in Free(g, p)})

\* C17.  find_freq_empty returns the first empty cell in row-major order
\* that has among its candidates the value whose frequency is the smallest
\* above 0, the smallest such value on ties; when no empty cell has a
\* candidate it returns what find_empty returns.
C17_LeastFrequentValue ==
  pc = "strategies" =>
    LET counted == {v \in 1..9 : Frequency(slots, v) > 0}
        rarest == {v \in counted :
                     \A w \in counted : Frequency(slots, v) <= Frequency(slots, w)}
        value == CHOOSE v \in rarest : \A w \in rarest : v <= w
    IN IF counted = {}
         THEN out["find_freq_empty"] = out["find_empty"]
         ELSE out["find_freq_empty"] =
                FirstOf({p \in EmptyAt(slots) : value \in Free(slots, p)})

\* C17, its case: two values share the smallest frequency and the cell
\* returned is not the first empty cell.
C17_Witness ==
  /\ pc = "strategies"
  /\ \E v, w \in 1..9 :
       /\ v # w
       /\ Frequency(slots, v) > 0
       /\ Frequency(slots, v) = Frequency(slots, w)
       /\ \A u \in 1..9 :
            Frequency(slots, u) > 0 => Frequency(slots, v) <= Frequency(slots, u)
  /\ out["find_freq_empty"] # out["find_empty"]

\* C13 (as claimed).  A frame that reports FAILED leaves the grid as it
\* was when the frame was entered; when the root call reports NoSolution
\* the grid is the input grid; and every candidate of a frame is tried on
\* the grid the frame's candidates were computed on.
C13_FailedFrameRestoresGrid ==
  /\ (pc = "iterate" /\ Top.idx = Len(Top.cands)) => slots = Top.entry
  /\ (pc = "done" /\ outcome[strategy].status = "NoSolution") =>
       slots = original
  /\ pc = "iterate" => slots = Top.grid

\* C14 (as claimed).  When the input grid has no nonzero value repeated
\* in a row, column or block, neither has the grid in any state of solve,
\* and a grid without an empty cell is then a valid solution.
C14_ConsistencyKept ==
  NoRepeat(original) =>
    /\ NoRepeat(slots)
    /\ EmptyAt(slots) = {} => Valid(slots)

\* C19.  At every point of a solve run every cell that is nonzero in the
\* input grid holds its input value.
C19_GivenCellsKept ==
  \A p \in Positions : At(original, p) # 0 => At(slots, p) = At(original, p)

\* C19, its case: a run with propagation that changed the grid and has
\* undone a tentative assignment, on an input with filled and empty cells.
C19_Witness ==
  /\ pc = "iterate"
  /\ settings.solve_simple
  /\ Top.idx >= 1
  /\ slots # original
  /\ slots # Top.grid
  /\ \E p \in Positions : At(original, p) # 0

\* What the body of solve_simple at (x, y) does to the grid s.slots is
\* nothing, or one write at (x, y), which was empty, of the value that is
\* its only candidate in s.slots.
WriteAt(s, x, y) ==
  LET t == ScanCell(s, x, y).slots
  IN \/ t = s.slots
     \/ /\ s.slots[y][x] = 0
        /\ Free(s.slots, <<x, y>>) = {t[y][x]}
        /\ \A p \in Positions : p # <<x, y>> => At(t, p) = At(s.slots, p)

\* Every write of one iteration of the loop of solve_simple, started on g,
\* is such a write.
ScanWrites(g) ==
  Loop(LAMBDA a, y :
         Loop(LAMBDA b, x : [s |-> ScanCell(b.s, x, y),
                             ok |-> b.ok /\ WriteAt(b.s, x, y)],
              0, a),
       0, [s |-> [slots |-> g, found_any |-> FALSE], ok |-> TRUE]).ok

\* Every write of solve_simple, started on g, is such a write.
RECURSIVE PassWrites(_)
PassWrites(g) ==
  /\ ScanWrites(g)
  /\ Scan(g).found_any => PassWrites(Scan(g).slots)

\* C15.  When solve_simple returns, no empty cell has exactly one
\* candidate, and every cell it wrote was empty before the write and
\* received the value that was its only candidate at that moment.
C15_FixpointOfSoleCandidates ==
  pc = "solve_simple" =>
    /\ \A p \in EmptyAt(out[1]) : Cardinality(Free(out[1], p)) # 1
    /\ PassWrites(slots)

\* C15, its case: solve_simple wrote cells and left empty a cell with
\* several candidates.
C15_Witness ==
  /\ pc = "solve_simple"
  /\ Scan(slots).found_any
  /\ \E p \in EmptyAt(out[1]) : Cardinality(Free(out[1], p)) >= 2

\* C18.  Once a call has reported SUCCEEDED, each step up to the return of
\* the root call is an enclosing frame reporting SUCCEEDED, the grid being
\* left as it is; and a candidate after the first of a frame is tried only
\* when the call made for the candidate before it has reported FAILED.
C18_FirstSuccessWins ==
  [][/\ (pc = "returned" /\ ret = "SUCCEEDED") =>
          /\ slots' = slots
          /\ ret' = "SUCCEEDED"
          /\ IF stack = <<>>
               THEN pc' = "done" /\ outcome'[strategy].status = "Solved"
               ELSE pc' = "returned"
                    /\ stack' = SubSeq(stack, 1, Len(stack) - 1)
     /\ (/\ pc = "iterate"
         /\ Len(stack') = Len(stack)
         /\ stack'[Len(stack)].idx > 1
         /\ stack'[Len(stack)].idx = Top.idx + 1) =>
          ret = "FAILED"]_vars

\* C18, its case: a call reported SUCCEEDED below two frames or more, of
\* which one had gone on to a later candidate and one has candidates left
\* that are not tried.
C18_Witness ==
  /\ pc = "returned"
  /\ ret = "SUCCEEDED"
  /\ Len(stack) >= 2
  /\ \E i \in 1..Len(stack) : stack[i].idx >= 2
  /\ \E i \in 1..Len(stack) : stack[i].idx < Len(stack[i].cands)

\* Grid a comes before grid b, or is b, in the lexicographic order of the
\* cell values read in row-major order.
LexLeq(a, b) ==
  \/ a = b
  \/ \E p \in Positions :
       /\ At(a, p) < At(b, p)
       /\ \A q \in Positions : RowMajor(q) < RowMajor(p) => At(a, q) = At(b, q)

\* The solved grid of the run that ended: what solve returned, laid over
\* the input when it returned the difference.
SolvedGrid ==
  IF settings.difference
    THEN Overlay(outcome[strategy].grid, original)
    ELSE outcome[strategy].grid

\* C20.  With find_empty and pre_pass_propagation off, on a consistent
\* input grid that has a valid completion, solve succeeds and the solved
\* grid is the valid completion that comes first in the lexicographic
\* order of the cell values read in row-major order.
C20_FirstEmptyLeastCompletion ==
  (/\ pc = "done"
   /\ strategy = "find_empty"
   /\ ~settings.solve_simple
   /\ Completions(original) # {}) =>
    /\ Solved(strategy)
    /\ SolvedGrid \in Completions(original)
    /\ \A c \in Completions(original) : LexLeq(SolvedGrid, c)

\* C20, its case: such a run ended on an input with several completions,
\* one of which comes after the solved grid.
C20_Witness ==
  /\ pc = "done"
  /\ strategy = "find_empty"
  /\ ~settings.solve_simple
  /\ Cardinality(Completions(original)) >= 2
  /\ Solved(strategy)
  /\ \E c \in Completions(original) : c # SolvedGrid /\ LexLeq(SolvedGrid, c)

====
